---- MODULE Spec2Model ----
(***************************************************************************)
(* ComputeSpikeLocations (spikeinterface/postprocessing/spike_locations.py) *)
(* as a state machine over a small Python object store.                     *)
(*                                                                          *)
(* Extension instances are numbered; every per-instance variable is a       *)
(* function whose domain is the set of constructed instances.  Python       *)
(* objects that can be aliased (dicts, numpy arrays) live in `heap` and are *)
(* named by integer references; records built afresh on every call and      *)
(* never aliased are kept by value.  Times are in microseconds (0.5 ms is   *)
(* 500), unit_index is 0-based as in numpy, TLA+ sequences are 1-based.     *)
(***************************************************************************)
EXTENDS Integers, Sequences, FiniteSets, TLC

VARIABLES
    unit_ids,   \* [instance -> sequence of unit ids]   sorting_result.unit_ids
    spikes,     \* [instance -> sequence of spike records]   self.spikes
    params,     \* [instance -> None or the current parameter record]   self.params
    data,       \* [instance -> reference of the instance's data dict]   self.data
    heap,       \* [reference -> Python object]
    last        \* the most recent call: operation, instance, inputs, outcome

vars == <<unit_ids, spikes, params, data, heap, last>>

----------------------------------------------------------------------------
(* Bounds of the model *)

MaxUnits == 2
MaxSpikes == 3

UnitIdOrder == <<"u3", "u1", "u2">>

UnitIdPool == {UnitIdOrder[k] : k \in DOMAIN UnitIdOrder}

----------------------------------------------------------------------------
(* Python values *)

None == [py |-> "None"]

EmptyDict == [k \in {} |-> 0]

DictObj(items) == [kind |-> "dict", items |-> items]

ArrayObj(items) == [kind |-> "ndarray", items |-> items]

\* dict.update: keys of `other` replace or extend those of d
dict_update(d, other) ==
    [k \in (DOMAIN d) \cup (DOMAIN other) |->
        IF k \in DOMAIN other THEN other[k] ELSE d[k]]

\* d[k] = v on a dict's items
dict_setitem(d, k, v) == dict_update(d, k :> v)

\* The smallest reference not in use
NewRef(h) ==
    CHOOSE r \in 0..Cardinality(DOMAIN h) :
        /\ r \notin DOMAIN h
        /\ \A q \in 0..Cardinality(DOMAIN h) : q \notin DOMAIN h => r <= q

\* The object created when the function _set_params is defined: the
\* default value of its method_kwargs argument
DefaultRef == 0

\* The outcome of a call: the value returned, or the exception raised
Return(value) == [raised |-> "none", value |-> value]

Raise(exception) == [raised |-> exception, value |-> None]

\* The array a data dict holds under "spike_locations", if any
ArrayOf(h, r) ==
    IF "spike_locations" \in DOMAIN h[r].items
    THEN <<h[r].items["spike_locations"]>>
    ELSE <<>>

\* The references reachable from the instances of d (data dicts) and p
\* (parameter records) and from the caller of the last call l, in a fixed
\* order of visit: the default object, then instance by instance, then
\* what the last call returned
Visit(d, p, l, h) ==
    LET own(i) == <<d[i]>> \o ArrayOf(h, d[i])
                  \o (IF p[i] # None THEN <<p[i].method_kwargs>> ELSE <<>>)
        upto[n \in Nat] ==
            IF n = 0 THEN <<DefaultRef>>
            ELSE upto[n - 1] \o (IF n \in DOMAIN d THEN own(n) ELSE <<>>)
        top == IF DOMAIN d = {} THEN 0 ELSE CHOOSE n \in DOMAIN d : \A m \in DOMAIN d : m <= n
    IN  upto[top] \o (IF "result" \in DOMAIN l
                      THEN <<l.result>> \o ArrayOf(h, l.result)
                      ELSE <<>>)

\* A sequence without its repeated elements
Dedup(seq) ==
    LET first[k \in 0..Len(seq)] ==
            IF k = 0 THEN <<>>
            ELSE IF \E m \in 1..(k - 1) : seq[m] = seq[k]
                 THEN first[k - 1]
                 ELSE Append(first[k - 1], seq[k])
    IN  first[Len(seq)]

\* References are names only.  Store keeps the objects that are still
\* reachable (the others are garbage) and names them by the order of
\* visit, so that two states that differ in the names alone are one state.
Store(d, p, l, h) ==
    \E order \in {Dedup(Visit(d, p, l, h))} :
        \E name \in {[r \in {order[k] : k \in DOMAIN order} |->
                         (CHOOSE k \in DOMAIN order : order[k] = r) - 1]} :
            LET renamed(obj) ==
                    IF obj.kind = "dict" /\ "spike_locations" \in DOMAIN obj.items
                    THEN [obj EXCEPT !.items["spike_locations"] = name[@]]
                    ELSE obj
            IN  /\ data' = [i \in DOMAIN d |-> name[d[i]]]
                /\ params' = [i \in DOMAIN p |->
                                 IF p[i] = None THEN None
                                 ELSE [p[i] EXCEPT !.method_kwargs = name[@]]]
                /\ last' = IF "result" \in DOMAIN l
                           THEN [l EXCEPT !.result = name[@]]
                           ELSE l
                /\ heap' = [k \in 0..(Len(order) - 1) |-> renamed(h[order[k + 1]])]

----------------------------------------------------------------------------
(* Defaults of _set_params *)

Default_ms_before == 500
Default_ms_after == 500
Default_radius_um == 50
Default_method == "center_of_mass"

KnownMethods == {"center_of_mass", "monopolar_triangulation", "grid_convolution"}

Arg(kw, name, default) == IF name \in DOMAIN kw THEN kw[name] ELSE default

\* _set_params with the merge the wrong way round: the defaults replace
\* what the caller supplied
_set_params_defaults_win(kw) ==
    LET spike_retriver_kwargs == Arg(kw, "spike_retriver_kwargs", None)
        defaults_ == [channel_from_template |-> TRUE,
                      radius_um |-> Default_radius_um,
                      peak_sign |-> "neg"]
        spike_retriver_kwargs_ ==
            IF spike_retriver_kwargs # None
            THEN dict_update(spike_retriver_kwargs, defaults_)
            ELSE defaults_
        params_ == [ms_before |-> Arg(kw, "ms_before", Default_ms_before),
                    ms_after |-> Arg(kw, "ms_after", Default_ms_after),
                    spike_retriver_kwargs |-> spike_retriver_kwargs_,
                    method |-> Arg(kw, "method", Default_method),
                    method_kwargs |-> Arg(kw, "method_kwargs", DefaultRef)]
    IN  Return(params_)

\* _set_params with the method checked at once
_set_params_validates(kw) ==
    LET defaults_ == [channel_from_template |-> TRUE,
                      radius_um |-> Default_radius_um,
                      peak_sign |-> "neg"]
        params_ == [ms_before |-> Arg(kw, "ms_before", Default_ms_before),
                    ms_after |-> Arg(kw, "ms_after", Default_ms_after),
                    spike_retriver_kwargs |->
                        dict_update(defaults_, Arg(kw, "spike_retriver_kwargs", EmptyDict)),
                    method |-> Arg(kw, "method", Default_method),
                    method_kwargs |-> Arg(kw, "method_kwargs", DefaultRef)]
    IN  IF params_.method \in KnownMethods THEN Return(params_) ELSE Raise("unknown_method")

\* ComputeSpikeLocations._set_params; kw holds the keyword arguments the
\* caller supplied (method_kwargs as the reference of the caller's dict)
_set_params(kw) ==
    LET spike_retriver_kwargs == Arg(kw, "spike_retriver_kwargs", None)
        defaults_ == [channel_from_template |-> TRUE,
                      radius_um |-> Default_radius_um,
                      peak_sign |-> "neg"]
        spike_retriver_kwargs_ ==
            IF spike_retriver_kwargs # None
            THEN dict_update(defaults_, spike_retriver_kwargs)
            ELSE defaults_
        params_ == [ms_before |-> Arg(kw, "ms_before", Default_ms_before),
                    ms_after |-> Arg(kw, "ms_after", Default_ms_after),
                    spike_retriver_kwargs |-> spike_retriver_kwargs_,
                    method |-> Arg(kw, "method", Default_method),
                    method_kwargs |-> Arg(kw, "method_kwargs", DefaultRef)]
    IN  Return(params_)

\* ResultExtension.set_params: records what _set_params returns as the
\* current parameters.  A method_kwargs dict the caller supplies is an
\* object of the caller, passed by reference.
SetParams(i, kw) ==
    /\ i \in DOMAIN params
    /\ LET supplied == "method_kwargs" \in DOMAIN kw
           r == NewRef(heap)
           heap1 == IF supplied THEN heap @@ (r :> DictObj(kw.method_kwargs)) ELSE heap
           call == IF supplied THEN dict_setitem(kw, "method_kwargs", r) ELSE kw
           out == _set_params(call)
       IN  Store(data,
                 IF out.raised = "none" THEN [params EXCEPT ![i] = out.value] ELSE params,
                 [op |-> "set_params", inst |-> i, kw |-> kw, raised |-> out.raised],
                 heap1)
    /\ UNCHANGED <<unit_ids, spikes>>

\* The caller changes, in place, the method_kwargs dict of the parameter
\* record set_params gave instance i:  ext.params["method_kwargs"][k] = v
ModifyMethodKwargs(i, k, v) ==
    /\ i \in DOMAIN params
    /\ params[i] # None
    /\ LET r == params[i].method_kwargs
           heap1 == [heap EXCEPT ![r].items = dict_setitem(@, k, v)]
       IN  Store(data, params, [op |-> "modify_params", inst |-> i], heap1)
    /\ UNCHANGED <<unit_ids, spikes>>

\* ext.params["spike_retriver_kwargs"][k] = v
ModifyRetrieverKwargs(i, k, v) ==
    /\ i \in DOMAIN params
    /\ params[i] # None
    /\ Store(data,
             [params EXCEPT ![i].spike_retriver_kwargs = dict_setitem(@, k, v)],
             [op |-> "modify_params", inst |-> i],
             heap)
    /\ UNCHANGED <<unit_ids, spikes>>

----------------------------------------------------------------------------
(* run *)

\* get_template_extremum_channel(sorting_result, peak_sign, outputs="index"):
\* the per-unit extremum channels of instance i's container for one peak sign
get_template_extremum_channel(i, peak_sign) ==
    [sorting_result |-> i, peak_sign |-> peak_sign, outputs |-> "index"]

\* The location the pipeline computes for one spike of instance i's sorting
LocationOf(i, spike) ==
    [sample_index |-> spike.sample_index,
     unit_id |-> unit_ids[i][spike.unit_index + 1]]

\* fix_job_kwargs: raises on job options it does not accept
fix_job_kwargs(job_kwargs) ==
    IF job_kwargs = "invalid" THEN Raise("job_kwargs") ELSE Return(job_kwargs)

\* get_localization_pipeline_nodes: raises on a method it does not know
get_localization_pipeline_nodes(recording, retriever, method, ms_before, ms_after, method_kwargs) ==
    IF method \notin KnownMethods
    THEN Raise("unknown_method")
    ELSE Return([recording |-> recording, retriever |-> retriever, method |-> method,
                 ms_before |-> ms_before, ms_after |-> ms_after,
                 method_kwargs |-> method_kwargs])

\* run_node_pipeline with gather_mode="memory": one location per spike the
\* retriever takes from its sorting, in the sorting's order, or the
\* failure of a worker
run_node_pipeline(recording, nodes, job_kwargs, job_name, gather_mode, runner_ok) ==
    IF ~runner_ok
    THEN Raise("runner")
    ELSE LET sorting == nodes.retriever.sorting
         IN  Return([j \in 1..Len(spikes[sorting]) |-> LocationOf(sorting, spikes[sorting][j])])

\* The SpikeRetriever that _get_pipeline_nodes constructs
SpikeRetriever(i) ==
    LET peak_sign == params[i].spike_retriver_kwargs["peak_sign"]
        extremum_channels_indices == get_template_extremum_channel(i, peak_sign)
    IN  [recording |-> i,
         sorting |-> i,
         channel_from_template |-> TRUE,
         extremum_channel_inds |-> extremum_channels_indices]

\* ComputeSpikeLocations._get_pipeline_nodes
_get_pipeline_nodes(i) ==
    get_localization_pipeline_nodes(
        i, SpikeRetriever(i), params[i].method, params[i].ms_before,
        params[i].ms_after, heap[params[i].method_kwargs].items)

\* _run that empties the output slot before it computes
_run_clears_slot_first(i, job_kwargs, runner_ok) ==
    LET fixed == fix_job_kwargs(job_kwargs)
        nodes == _get_pipeline_nodes(i)
        spike_locations == run_node_pipeline(i, nodes.value, fixed.value,
                                             "spike_locations", "memory", runner_ok)
        r == NewRef(heap)
        cleared == [heap EXCEPT ![data[i]].items = EmptyDict]
    IN  IF fixed.raised # "none"
        THEN [raised |-> fixed.raised, heap |-> cleared, runner_calls |-> 0,
              retriever |-> None]
        ELSE IF nodes.raised # "none"
        THEN [raised |-> nodes.raised, heap |-> cleared, runner_calls |-> 0,
              retriever |-> SpikeRetriever(i)]
        ELSE IF spike_locations.raised # "none"
        THEN [raised |-> spike_locations.raised, heap |-> cleared, runner_calls |-> 1,
              retriever |-> SpikeRetriever(i)]
        ELSE [raised |-> "none",
              heap |-> [(heap @@ (r :> ArrayObj(spike_locations.value)))
                            EXCEPT ![data[i]].items = dict_setitem(@, "spike_locations", r)],
              runner_calls |-> 1,
              retriever |-> SpikeRetriever(i)]

\* ComputeSpikeLocations._run: the exception raised (or "none"), the object
\* store afterwards, the number of calls of the runner and the retriever
\* that was constructed
_run(i, job_kwargs, runner_ok) ==
    LET fixed == fix_job_kwargs(job_kwargs)
        nodes == _get_pipeline_nodes(i)
        spike_locations == run_node_pipeline(i, nodes.value, fixed.value,
                                             "spike_locations", "memory", runner_ok)
        r == NewRef(heap)
    IN  IF fixed.raised # "none"
        THEN [raised |-> fixed.raised, heap |-> heap, runner_calls |-> 0,
              retriever |-> None]
        ELSE IF nodes.raised # "none"
        THEN [raised |-> nodes.raised, heap |-> heap, runner_calls |-> 0,
              retriever |-> SpikeRetriever(i)]
        ELSE IF spike_locations.raised # "none"
        THEN [raised |-> spike_locations.raised, heap |-> heap, runner_calls |-> 1,
              retriever |-> SpikeRetriever(i)]
        ELSE [raised |-> "none",
              heap |-> [(heap @@ (r :> ArrayObj(spike_locations.value)))
                            EXCEPT ![data[i]].items = dict_setitem(@, "spike_locations", r)],
              runner_calls |-> 1,
              retriever |-> SpikeRetriever(i)]

\* ResultExtension.run on an instance whose parameters are set
Run(i, job_kwargs, runner_ok) ==
    /\ i \in DOMAIN params
    /\ params[i] # None
    /\ LET out == _run(i, job_kwargs, runner_ok)
       IN  Store(data, params,
                 [op |-> "run", inst |-> i, job_kwargs |-> job_kwargs,
                  runner_ok |-> runner_ok, raised |-> out.raised,
                  runner_calls |-> out.runner_calls, retriever |-> out.retriever],
                 out.heap)
    /\ UNCHANGED <<unit_ids, spikes>>

----------------------------------------------------------------------------
(* select_extension_data *)

\* numpy.isin(element, test_elements): the elementwise membership mask
np_isin(element, test_elements) ==
    [j \in DOMAIN element |-> element[j] \in test_elements]

\* numpy.flatnonzero(mask): the 0-based positions at which the mask holds
np_flatnonzero(mask) == {j - 1 : j \in {k \in DOMAIN mask : mask[k]}}

\* a[mask] that loses the first entry
bool_index_skips_first(a, mask) ==
    LET kept[j \in 0..Len(a)] ==
            IF j <= 1 THEN <<>>
            ELSE IF mask[j] THEN Append(kept[j - 1], a[j]) ELSE kept[j - 1]
    IN  kept[Len(a)]

\* a[mask] for a boolean mask as long as a: the entries the mask keeps, in
\* order, in a new array
bool_index(a, mask) ==
    LET kept[j \in 0..Len(a)] ==
            IF j = 0 THEN <<>>
            ELSE IF mask[j] THEN Append(kept[j - 1], a[j]) ELSE kept[j - 1]
    IN  kept[Len(a)]

\* unit_inds counted from 1
select_unit_inds_one_based(i, unit_ids_) ==
    {k + 1 : k \in np_flatnonzero(np_isin(unit_ids[i], unit_ids_))}

\* unit_inds taken in the unit-index space of the reduced unit list
select_unit_inds_new_index_space(i, unit_ids_) ==
    0..(Cardinality(np_flatnonzero(np_isin(unit_ids[i], unit_ids_))) - 1)

\* unit_inds where an empty selection means every unit
select_unit_inds_empty_means_all(i, unit_ids_) ==
    IF np_flatnonzero(np_isin(unit_ids[i], unit_ids_)) = {}
    THEN 0..(Len(unit_ids[i]) - 1)
    ELSE np_flatnonzero(np_isin(unit_ids[i], unit_ids_))

\* The first two lines of _select_extension_data: the indices, in the
\* container's unit-id list, of the units of unit_ids_
select_unit_inds(i, unit_ids_) ==
    LET old_unit_ids == unit_ids[i]
    IN  np_flatnonzero(np_isin(old_unit_ids, unit_ids_))

\* _select_extension_data that hands back the stored array itself when the
\* mask keeps every entry
_select_extension_data_no_copy(i, unit_ids_) ==
    LET unit_inds == select_unit_inds(i, unit_ids_)
        spike_mask == np_isin([j \in DOMAIN spikes[i] |-> spikes[i][j].unit_index], unit_inds)
        self_data == heap[data[i]].items
        stored == heap[self_data["spike_locations"]].items
        whole == \A j \in DOMAIN spike_mask : spike_mask[j]
        new_spike_locations == IF whole THEN self_data["spike_locations"] ELSE NewRef(heap)
        heap1 == IF whole THEN heap
                 ELSE heap @@ (new_spike_locations :> ArrayObj(bool_index(stored, spike_mask)))
        result == NewRef(heap1)
    IN  IF "spike_locations" \notin DOMAIN self_data
        THEN [raised |-> "KeyError", heap |-> heap]
        ELSE IF Len(stored) # Len(spike_mask)
        THEN [raised |-> "IndexError", heap |-> heap]
        ELSE [raised |-> "none",
              heap |-> heap1 @@ (result :> DictObj([spike_locations |-> new_spike_locations])),
              result |-> result]

\* ComputeSpikeLocations._select_extension_data: the exception raised (or
\* "none"), the object store afterwards and the reference of the returned dict
_select_extension_data(i, unit_ids_) ==
    LET unit_inds == select_unit_inds(i, unit_ids_)
        spike_mask == np_isin([j \in DOMAIN spikes[i] |-> spikes[i][j].unit_index], unit_inds)
        self_data == heap[data[i]].items
        stored == heap[self_data["spike_locations"]].items
        new_spike_locations == NewRef(heap)
        heap1 == heap @@ (new_spike_locations :> ArrayObj(bool_index(stored, spike_mask)))
        result == NewRef(heap1)
    IN  IF "spike_locations" \notin DOMAIN self_data
        THEN [raised |-> "KeyError", heap |-> heap]
        ELSE IF Len(stored) # Len(spike_mask)
        THEN [raised |-> "IndexError", heap |-> heap]
        ELSE [raised |-> "none",
              heap |-> heap1 @@ (result :> DictObj([spike_locations |-> new_spike_locations])),
              result |-> result]

\* A caller calls select_extension_data and keeps what it returns
Select(i, unit_ids_) ==
    /\ i \in DOMAIN data
    /\ LET out == _select_extension_data(i, unit_ids_)
       IN  Store(data, params,
                 IF out.raised = "none"
                 THEN [op |-> "select_extension_data", inst |-> i,
                       unit_ids |-> unit_ids_, raised |-> out.raised,
                       result |-> out.result]
                 ELSE [op |-> "select_extension_data", inst |-> i,
                       unit_ids |-> unit_ids_, raised |-> out.raised],
                 out.heap)
    /\ UNCHANGED <<unit_ids, spikes>>

\* An entry no pipeline computes
Overwritten == [sample_index |-> 0, unit_id |-> "overwritten"]

\* The caller changes an entry of the array select_extension_data returned:
\* returned["spike_locations"][j] = Overwritten
ModifyReturnedArray(j) ==
    /\ "result" \in DOMAIN last
    /\ "spike_locations" \in DOMAIN heap[last.result].items
    /\ LET a == heap[last.result].items["spike_locations"]
       IN  /\ j \in DOMAIN heap[a].items
           /\ \A k \in DOMAIN heap[a].items : heap[a].items[k] # Overwritten
           /\ Store(data, params,
                    [op |-> "modify_returned", inst |-> last.inst, result |-> last.result],
                    [heap EXCEPT ![a].items[j] = Overwritten])
    /\ UNCHANGED <<unit_ids, spikes>>

\* The caller changes the dict select_extension_data returned:
\* del returned["spike_locations"]
ModifyReturnedDict ==
    /\ "result" \in DOMAIN last
    /\ "spike_locations" \in DOMAIN heap[last.result].items
    /\ Store(data, params,
             [op |-> "modify_returned", inst |-> last.inst, result |-> last.result],
             [heap EXCEPT ![last.result].items = EmptyDict])
    /\ UNCHANGED <<unit_ids, spikes>>

\* The 0-based position of unit id u in the unit-id list ids
IndexOf(ids, u) == (CHOOSE k \in DOMAIN ids : ids[k] = u) - 1

\* The container reduced to the units of unit_ids_ (select_units): a new
\* instance n on the reduced sorting, its Spike Vector built from that
\* sorting, the parameters of instance i, and as its data the record that
\* select_extension_data returns when instance i holds an output
SelectUnits(i, n, unit_ids_) ==
    /\ i \in DOMAIN data
    /\ n # i
    /\ unit_ids_ \subseteq {unit_ids[i][k] : k \in DOMAIN unit_ids[i]}
    /\ LET new_ids == SelectSeq(unit_ids[i], LAMBDA u : u \in unit_ids_)
           kept == SelectSeq(spikes[i], LAMBDA s : unit_ids[i][s.unit_index + 1] \in unit_ids_)
           new_spikes == [j \in DOMAIN kept |->
                             [sample_index |-> kept[j].sample_index,
                              unit_index |-> IndexOf(new_ids, unit_ids[i][kept[j].unit_index + 1])]]
           has_output == "spike_locations" \in DOMAIN heap[data[i]].items
           out == _select_extension_data(i, unit_ids_)
           fresh == NewRef(heap)
           new_data == IF has_output THEN out.result ELSE fresh
           heap1 == IF has_output THEN out.heap ELSE heap @@ (fresh :> DictObj(EmptyDict))
           without(f) == [m \in (DOMAIN f) \ {n} |-> f[m]]
       IN  /\ has_output => out.raised = "none"
           /\ unit_ids' = without(unit_ids) @@ (n :> new_ids)
           /\ spikes' = without(spikes) @@ (n :> new_spikes)
           /\ Store(without(data) @@ (n :> new_data),
                    without(params) @@ (n :> params[i]),
                    [op |-> "select_units", inst |-> i, unit_ids |-> unit_ids_],
                    heap1)

----------------------------------------------------------------------------
(* What a user of an instance sees *)

\* self.params with its method_kwargs dict read through the reference
ParamsOf(i) ==
    IF params[i] = None THEN None
    ELSE [params[i] EXCEPT !.method_kwargs = heap[@].items]

\* "spike_locations" in self.data
HasOutput(i) == "spike_locations" \in DOMAIN heap[data[i]].items

\* self.data["spike_locations"] as a sequence of entries
OutputOf(i) == heap[heap[data[i]].items["spike_locations"]].items

\* The output slot: empty, or holding one array
OutputSlot(i) == IF HasOutput(i) THEN <<OutputOf(i)>> ELSE <<>>

\* The array in the dict the last call returned
Returned == heap[heap[last.result].items["spike_locations"]].items

\* The unit ids of instance i's container
UnitsOf(i) == {unit_ids[i][k] : k \in DOMAIN unit_ids[i]}

\* The unit id of spike j of instance i
UnitOfSpike(i, j) == unit_ids[i][spikes[i][j].unit_index + 1]

----------------------------------------------------------------------------
(* Inputs *)

\* A keyword argument that is left out or given one of some values
Opt(name, values) == {EmptyDict} \cup {name :> v : v \in values}

\* The overrides of the retrieval configuration: every subset of its keys
RetrieverOverrides ==
    {a @@ b @@ c : a \in Opt("channel_from_template", {FALSE}),
                   b \in Opt("radius_um", {30}),
                   c \in Opt("peak_sign", {"pos"})}

\* Every choice of keyword arguments of set_params
AllKwargs ==
    {a @@ b @@ c @@ d @@ e :
        a \in Opt("ms_before", {1000}),
        b \in Opt("ms_after", {2000}),
        c \in Opt("spike_retriver_kwargs", RetrieverOverrides),
        d \in Opt("method", {"monopolar_triangulation", "no_such_method"}),
        e \in Opt("method_kwargs", {[x |-> 1]})}

\* The keyword arguments that decide which objects two instances can share
SharingKwargs ==
    {c @@ e : c \in Opt("spike_retriver_kwargs", {[peak_sign |-> "pos"]}),
              e \in Opt("method_kwargs", {EmptyDict})}

\* The unit-id lists of a sorting: distinct ids, in the order of UnitIdOrder
UnitIdLists ==
    {SelectSeq(UnitIdOrder, LAMBDA u : u \in chosen) :
        chosen \in {c \in SUBSET UnitIdPool : Cardinality(c) <= MaxUnits}}

\* The Spike Vectors of a sorting of n units: ordered by sample index
SpikeVectors(n) ==
    {[j \in DOMAIN u |-> [sample_index |-> j, unit_index |-> u[j]]] :
        u \in UNION {[1..m -> 0..(n - 1)] : m \in 0..MaxSpikes}}

\* The state after construction of the instances of `sortings`
\* (instance -> unit ids and spikes): no parameters, an empty data dict each
Constructed(sortings) ==
    LET insts == DOMAIN sortings
        ref(i) == Cardinality({m \in insts : m <= i})
    IN  /\ unit_ids = [i \in insts |-> sortings[i].unit_ids]
        /\ spikes = [i \in insts |-> sortings[i].spikes]
        /\ params = [i \in insts |-> None]
        /\ data = [i \in insts |-> ref(i)]
        /\ heap = [r \in {DefaultRef} \cup {ref(i) : i \in insts} |-> DictObj(EmptyDict)]
        /\ last = [op |-> "construct"]

----------------------------------------------------------------------------
(* Spec: two instances on two containers; set_params, run and in-place *)
(* changes of the parameter records                                     *)

TwoSpikes == <<[sample_index |-> 1, unit_index |-> 1],
               [sample_index |-> 2, unit_index |-> 0]>>

Init ==
    Constructed([i \in {1, 2} |-> [unit_ids |-> <<"u1", "u2">>, spikes |-> TwoSpikes]])

Next ==
    \/ \E i \in DOMAIN params, kw \in SharingKwargs : SetParams(i, kw)
    \/ \E i \in DOMAIN params : ModifyMethodKwargs(i, "x", 1)
    \/ \E i \in DOMAIN params : ModifyRetrieverKwargs(i, "radius_um", 30)
    \/ \E i \in DOMAIN params : Run(i, "valid", TRUE)

Spec == Init /\ [][Next]_vars

----------------------------------------------------------------------------
(* SpecParams: one instance, configured once with any choice of arguments *)
(* of set_params, then run with any outcome of the collaborators          *)

InitParams ==
    Constructed([i \in {1} |-> [unit_ids |-> <<"u1", "u2">>, spikes |-> TwoSpikes]])

NextParams ==
    \/ /\ params[1] = None
       /\ \E kw \in AllKwargs : SetParams(1, kw)
    \/ \E job_kwargs \in {"valid", "invalid"}, runner_ok \in BOOLEAN :
          Run(1, job_kwargs, runner_ok)

SpecParams == InitParams /\ [][NextParams]_vars

----------------------------------------------------------------------------
(* SpecSelect: one container of any small sorting, its output computed, *)
(* sliced and installed into the instance of the reduced container      *)

InitSelect ==
    \E ids \in UnitIdLists :
        \E sp \in SpikeVectors(Len(ids)) :
            /\ unit_ids = (1 :> ids)
            /\ spikes = (1 :> sp)
            /\ params = (1 :> _set_params(EmptyDict).value)
            /\ data = (1 :> 1)
            /\ heap = [r \in {DefaultRef, 1} |-> DictObj(EmptyDict)]
            /\ last = [op |-> "set_params", inst |-> 1, kw |-> EmptyDict, raised |-> "none"]

NextSelect ==
    \/ \E i \in DOMAIN data : Run(i, "valid", TRUE)
    \/ \E unit_ids_ \in SUBSET UnitIdPool : Select(1, unit_ids_)
    \/ /\ 2 \notin DOMAIN data
       /\ \E unit_ids_ \in SUBSET UnitIdPool : SelectUnits(1, 2, unit_ids_)
    \/ \E j \in 1..MaxSpikes : ModifyReturnedArray(j)
    \/ ModifyReturnedDict

SpecSelect == InitSelect /\ [][NextSelect]_vars

----------------------------------------------------------------------------
(* Claims on set_params and run *)

\* The documented defaults of the retrieval configuration
DocumentedRetrieval ==
    [channel_from_template |-> TRUE, radius_um |-> 50, peak_sign |-> "neg"]

\* C2: when run builds the pipeline, the spike retriever gets the
\* channel_from_template value of the current parameters and the
\* extremum-channel mapping computed for the configured peak_sign.
C2_RetrieverFollowsParams ==
    (last.op = "run" /\ last.retriever # None) =>
        LET configured == params[last.inst].spike_retriver_kwargs
        IN  /\ last.retriever.channel_from_template = configured["channel_from_template"]
            /\ last.retriever.extremum_channel_inds.peak_sign = configured["peak_sign"]

\* C4: no shared mutable state across instances: a call on, or an in-place
\* change of the parameter record of, one instance leaves the parameters
\* and the output of every other instance as they were, and set_params()
\* with no arguments always gives the documented defaults with an empty
\* method_kwargs.
C4_NoSharedMutableState ==
    /\ [][\A i \in DOMAIN params :
            ("inst" \in DOMAIN last' /\ last'.inst = i) =>
                \A j \in (DOMAIN params) \ {i} :
                    /\ ParamsOf(j)' = ParamsOf(j)
                    /\ OutputSlot(j)' = OutputSlot(j)]_vars
    /\ []((last.op = "set_params" /\ last.kw = EmptyDict) =>
            ParamsOf(last.inst) = [ms_before |-> 500, ms_after |-> 500,
                                   spike_retriver_kwargs |-> DocumentedRetrieval,
                                   method |-> "center_of_mass",
                                   method_kwargs |-> EmptyDict])

\* C5: set_params returns the default record with exactly the supplied
\* fields replaced; in the retrieval configuration each supplied key holds
\* the supplied value and each other key its default.
C5_DefaultsWithSuppliedFieldsReplaced ==
    (last.op = "set_params") =>
        LET kw == last.kw
            got == params[last.inst]
            overrides == IF "spike_retriver_kwargs" \in DOMAIN kw
                         THEN kw["spike_retriver_kwargs"] ELSE EmptyDict
        IN  /\ last.raised = "none"
            /\ got.ms_before = (IF "ms_before" \in DOMAIN kw THEN kw["ms_before"] ELSE 500)
            /\ got.ms_after = (IF "ms_after" \in DOMAIN kw THEN kw["ms_after"] ELSE 500)
            /\ got.method = (IF "method" \in DOMAIN kw THEN kw["method"] ELSE "center_of_mass")
            /\ DOMAIN got.spike_retriver_kwargs = DOMAIN DocumentedRetrieval
            /\ \A key \in DOMAIN DocumentedRetrieval :
                    got.spike_retriver_kwargs[key] =
                        (IF key \in DOMAIN overrides THEN overrides[key]
                         ELSE DocumentedRetrieval[key])

\* C5's case: only radius_um=30 was supplied
C5_Witness ==
    /\ last.op = "set_params"
    /\ last.kw = [spike_retriver_kwargs |-> [radius_um |-> 30]]
    /\ params[last.inst].spike_retriver_kwargs =
            [channel_from_template |-> TRUE, radius_um |-> 30, peak_sign |-> "neg"]

\* C9: set_params takes any method string and returns it unchanged; an
\* unknown method fails only in run, at the pipeline-node factory, before
\* the runner is called.
C9_MethodCheckedOnlyAtRun ==
    /\ (last.op = "set_params") =>
            /\ last.raised = "none"
            /\ params[last.inst].method =
                    (IF "method" \in DOMAIN last.kw THEN last.kw["method"] ELSE "center_of_mass")
    /\ (last.op = "run" /\ last.job_kwargs = "valid") =>
            /\ (params[last.inst].method \notin KnownMethods) <=> (last.raised = "unknown_method")
            /\ (last.raised = "unknown_method") => (last.runner_calls = 0)

\* C9's case: a run that failed on a method set_params had accepted
C9_Witness ==
    /\ last.op = "run"
    /\ last.raised = "unknown_method"
    /\ params[last.inst].method = "no_such_method"

\* C10: a failing run passes on the failure of the stage that failed, calls
\* the runner at most once and leaves the output slot as it was; the slot
\* is written only after the runner has returned.
C10_FailedRunKeepsOutput ==
    [][\A i \in DOMAIN params : (last'.op = "run" /\ last'.inst = i) =>
          LET expected ==
                  IF last'.job_kwargs = "invalid" THEN "job_kwargs"
                  ELSE IF params[i].method \notin KnownMethods THEN "unknown_method"
                  ELSE IF ~last'.runner_ok THEN "runner"
                  ELSE "none"
          IN  /\ last'.raised = expected
              /\ last'.runner_calls <= 1
              /\ (last'.raised \in {"job_kwargs", "unknown_method"}) => (last'.runner_calls = 0)
              /\ (last'.raised # "none") => (OutputSlot(i)' = OutputSlot(i))
              /\ (last'.raised = "none") => (HasOutput(i)' /\ last'.runner_calls = 1)]_vars

\* C10's case: the runner failed and the earlier result is still there
C10_Witness ==
    /\ last.op = "run"
    /\ last.raised = "runner"
    /\ last.runner_calls = 1
    /\ HasOutput(last.inst)
    /\ Len(OutputOf(last.inst)) = Len(spikes[last.inst])

----------------------------------------------------------------------------
(* Claims on select_extension_data and on the output *)

\* The spikes of instance i whose unit is in U
SpikesIn(i, U) == {j \in DOMAIN spikes[i] : UnitOfSpike(i, j) \in U}

\* C1: select_extension_data(U) returns exactly the entries of the spikes
\* whose unit is in U: as many as there are such spikes, none of a spike
\* whose unit is outside U, in their original relative order.
C1_SelectReturnsSpikesOfU ==
    (last.op = "select_extension_data" /\ last.raised = "none") =>
        LET i == last.inst
            chosen == SpikesIn(i, last.unit_ids)
            stored == OutputOf(i)
        IN  /\ Len(Returned) = Cardinality(chosen)
            /\ \A k \in DOMAIN Returned : \E j \in chosen : Returned[k] = stored[j]
            /\ \A k1, k2 \in DOMAIN Returned :
                    k1 < k2 =>
                        \E j1, j2 \in chosen :
                            /\ j1 < j2
                            /\ Returned[k1] = stored[j1]
                            /\ Returned[k2] = stored[j2]

\* C1's case: a selection that keeps some spikes and drops others
C1_Witness ==
    /\ last.op = "select_extension_data"
    /\ last.raised = "none"
    /\ Len(Returned) >= 2
    /\ Len(Returned) < Len(OutputOf(last.inst))
    /\ \E u \in last.unit_ids : u \notin UnitsOf(last.inst)

\* C3: an output an instance holds, computed by run or sliced by
\* select_extension_data and installed in the instance of the reduced
\* container, has one entry per spike of the instance's Spike Vector, and
\* entry j is the location of spike j.
C3_OutputAlignedWithSpikes ==
    \A i \in DOMAIN data :
        HasOutput(i) =>
            /\ Len(OutputOf(i)) = Len(spikes[i])
            /\ \A j \in DOMAIN spikes[i] :
                    OutputOf(i)[j] = [sample_index |-> spikes[i][j].sample_index,
                                      unit_id |-> UnitOfSpike(i, j)]

\* C3's case: a reduced instance holding a sliced output, shorter than the
\* output it was sliced from
C3_Witness ==
    /\ last.op = "select_units"
    /\ DOMAIN data = {1, 2}
    /\ HasOutput(1)
    /\ HasOutput(2)
    /\ Len(OutputOf(2)) >= 1
    /\ Len(OutputOf(2)) < Len(OutputOf(1))
    /\ spikes[2][1].unit_index # spikes[1][1].unit_index

\* C6: select_extension_data with all the unit ids of the container
\* returns the stored output: same entries, same order.
C6_SelectAllIsIdentity ==
    (/\ last.op = "select_extension_data"
     /\ last.raised = "none"
     /\ UnitsOf(last.inst) \subseteq last.unit_ids) =>
        Returned = OutputOf(last.inst)

\* C6's case: all the units of a container of two units, each with spikes
C6_Witness ==
    /\ last.op = "select_extension_data"
    /\ last.raised = "none"
    /\ last.unit_ids = UnitsOf(last.inst)
    /\ Len(unit_ids[last.inst]) = 2
    /\ Len(Returned) = 3
    /\ \E j, k \in DOMAIN spikes[last.inst] :
            spikes[last.inst][j].unit_index # spikes[last.inst][k].unit_index

\* C7: with no unit id, or only ids that are not units of the container,
\* select_extension_data of a stored output does not fail and returns an
\* output with no entry.
C7_SelectNoUnitIsEmpty ==
    (/\ last.op = "select_extension_data"
     /\ HasOutput(last.inst)
     /\ last.unit_ids \cap UnitsOf(last.inst) = {}) =>
        /\ last.raised = "none"
        /\ Returned = <<>>

\* C7's case: the empty selection of an output that has entries
C7_Witness ==
    /\ last.op = "select_extension_data"
    /\ last.unit_ids = {}
    /\ HasOutput(last.inst)
    /\ Len(OutputOf(last.inst)) >= 2
    /\ last.raised = "none"
    /\ Returned = <<>>

\* C7's other case: ids that are not units of the container
C7_WitnessMismatched ==
    /\ last.op = "select_extension_data"
    /\ last.unit_ids # {}
    /\ last.unit_ids \cap UnitsOf(last.inst) = {}
    /\ HasOutput(last.inst)
    /\ Len(OutputOf(last.inst)) >= 2
    /\ last.raised = "none"
    /\ Returned = <<>>

\* C8: select_extension_data leaves the Spike Vector, the parameters and
\* the stored output of the instance as they were; what it returns holds
\* the key "spike_locations" alone and is a new dict with a new array, so
\* that changing either does not change the stored output.
C8_SelectIsPureProjection ==
    [][/\ (last'.op = "select_extension_data") =>
            /\ spikes' = spikes
            /\ unit_ids' = unit_ids
            /\ \A i \in DOMAIN data :
                    /\ ParamsOf(i)' = ParamsOf(i)
                    /\ OutputSlot(i)' = OutputSlot(i)
            /\ (last'.raised = "none") =>
                    /\ DOMAIN heap'[last'.result].items = {"spike_locations"}
                    /\ \A i \in DOMAIN data' :
                            /\ last'.result # data'[i]
                            /\ HasOutput(i)' =>
                                    heap'[last'.result].items["spike_locations"]
                                        # heap'[data'[i]].items["spike_locations"]
       /\ (last'.op = "modify_returned") =>
            \A i \in DOMAIN data : OutputSlot(i)' = OutputSlot(i)]_vars

\* C8's case: the caller has overwritten an entry of what a selection of
\* every unit returned, and the stored output still has its entry
C8_Witness ==
    /\ last.op = "modify_returned"
    /\ HasOutput(last.inst)
    /\ "spike_locations" \in DOMAIN heap[last.result].items
    /\ Len(Returned) = Len(OutputOf(last.inst))
    /\ \E j \in DOMAIN Returned :
            /\ Returned[j] = Overwritten
            /\ OutputOf(last.inst)[j] # Overwritten

====
